---- MODULE Spec2Model ----
(***************************************************************************)
(* A model of para.map (src/para/map.py): the orchestrator generator       *)
(* `map`, the Mapper worker processes and the QueueLogger thread, with the *)
(* three multiprocessing queues they share.                                *)
(*                                                                         *)
(* Items are the integers 1..nitems, in the order of the input list.       *)
(* process(item) is a generator; its behaviour on an item is a record      *)
(* [n, fails]: it yields the n values <<item,1>> .. <<item,n>> and then    *)
(* either is exhausted or (fails) raises the error Error(item).            *)
(* A multiprocessing.Queue is modelled as an atomic FIFO.                   *)
(***************************************************************************)
EXTENDS Integers, Sequences, FiniteSets, TLC

(* ------------------------------ bounds -------------------------------- *)
MaxItems == 2
MaxVals == 2

(* --------------------------- program constants ------------------------ *)
\* multiprocessing.cpu_count() of the machine
CpuCount == 2
\* the default of the `mappers` parameter (None), encoded as an integer the
\* model never draws as a requested pool size
NoneArg == -1
\* the `None` half of an (error, value) output record
None == 0
NoValue == <<0, 0>>

VARIABLES
    nitems,            \* len(items); items = [1, ..., nitems]
    proc,              \* proc[i]: what process(i) does
    mappers,           \* the `mappers` parameter, overwritten by the pool size
    opc,               \* where the generator `map` is
    enq,               \* how many items the loading loop has put so far
    item_queue,        \* Queue of items
    output,            \* Queue of (error, value) records
    mapper_processes,  \* list of Mapper objects (their process state)
    started,           \* how many Mappers have been start()ed
    scan,              \* position of the is_alive() generator expression
    alive,             \* running value of sum(m.is_alive() ...)
    yielded,           \* values the caller has received, in order
    raised,            \* the error raised to the caller (None: none)
    taken,             \* records map has taken from output, in order
    logq,              \* QueueLogger.queue
    qlogger_started,   \* the QueueLogger thread runs
    sink               \* writes to the process-wide logger: <<writer, level, msg>>

vars == <<nitems, proc, mappers, opc, enq, item_queue, output, mapper_processes,
          started, scan, alive, yielded, raised, taken, logq, qlogger_started, sink>>

orch_vars == <<opc, enq, mappers, started, scan, alive, yielded, raised, taken>>
input_vars == <<nitems, proc>>
log_vars == <<logq, qlogger_started, sink>>

(* ------------------------------ helpers ------------------------------- *)
Min(a, b) == IF a < b THEN a ELSE b
Max(a, b) == IF a > b THEN a ELSE b

Items == 1..nitems

\* the values process(i) yields before it ends or raises
Values(i) == [k \in 1..proc[i].n |-> <<i, k>>]

\* the exception object process(i) raises
Error(i) == i

Behaviours == [n : 0..MaxVals, fails : BOOLEAN]

\* the `mappers` arguments the model draws: None, 0, 1, .., MaxItems + 1
Requested == {NoneArg} \cup (0..(MaxItems + 1))

\* Python truth value of the `mappers` argument
Truthy(m) == m # NoneArg /\ m # 0

\* mutant: the pool size without min(..., len(items))
PoolSize_nomin(m, len) == Max(1, IF Truthy(m) THEN m ELSE CpuCount)

\* min(max(1, mappers or cpu_count()), len(items))
PoolSize(m, len) == Min(Max(1, IF Truthy(m) THEN m ELSE CpuCount), len)

\* Mapper.__init__
NewMapper == [pc |-> "new", item |-> None, count |-> 0, stats |-> <<>>, sent |-> <<>>]

\* Process.is_alive()
IsAlive(m) == m.pc \in {"start", "get", "proc"}

Workers == 1..Len(mapper_processes)

\* QueueLogger.info / QueueLogger.error
\* a formatted log message: what it says, the Mapper's name, the item and the
\* stats it mentions (None / <<>> when it mentions none)
Msg(kind, w, item, stats) == [kind |-> kind, name |-> w, item |-> item, stats |-> stats]

LogInfo(q, msg) == Append(q, <<"INFO", msg>>)
LogError(q, msg) == Append(q, <<"ERROR", msg>>)

(* ------------------------------- Init --------------------------------- *)
Init ==
    /\ nitems \in 0..MaxItems
    /\ proc \in [1..nitems -> Behaviours]
    /\ mappers \in Requested
    /\ opc = "load"
    /\ enq = 0
    /\ item_queue = <<>>
    /\ output = <<>>
    /\ mapper_processes = <<>>
    /\ started = 0
    /\ scan = 0
    /\ alive = 0
    /\ yielded = <<>>
    /\ raised = None
    /\ taken = <<>>
    /\ logq = <<>>
    /\ qlogger_started = FALSE
    /\ sink = {}

(* ---------------------------- map (generator) ------------------------- *)
\* for item in items: item_queue.put(item)
LoadItem ==
    /\ opc = "load"
    /\ enq < nitems
    /\ enq' = enq + 1
    /\ item_queue' = Append(item_queue, enq + 1)
    /\ UNCHANGED <<input_vars, log_vars, mappers, opc, output, mapper_processes,
                   started, scan, alive, yielded, raised, taken>>

\* mutant: the pool is prepared as soon as the first item is on the queue
Prepare_early ==
    /\ opc = "load"
    /\ enq >= Min(1, nitems)
    /\ mappers' = PoolSize(mappers, nitems)
    /\ output' = <<>>
    /\ qlogger_started' = TRUE
    /\ mapper_processes' = [i \in 1..mappers' |-> NewMapper]
    /\ opc' = "spawn"
    /\ UNCHANGED <<input_vars, enq, item_queue, started, scan, alive, yielded,
                   raised, taken, logq, sink>>

\* the pool size, the output queue, the QueueLogger and the Mapper objects
Prepare ==
    /\ opc = "load"
    /\ enq = nitems
    /\ mappers' = PoolSize(mappers, nitems)
    /\ output' = <<>>
    /\ qlogger_started' = TRUE
    /\ mapper_processes' = [i \in 1..mappers' |-> NewMapper]
    /\ opc' = "spawn"
    /\ UNCHANGED <<input_vars, enq, item_queue, started, scan, alive, yielded,
                   raised, taken, logq, sink>>

\* for mapper_process in mapper_processes: mapper_process.start()
StartMapper ==
    /\ opc = "spawn"
    /\ started < Len(mapper_processes)
    /\ started' = started + 1
    /\ mapper_processes' = [mapper_processes EXCEPT ![started + 1].pc = "start"]
    /\ UNCHANGED <<input_vars, log_vars, mappers, opc, enq, item_queue, output,
                   scan, alive, yielded, raised, taken>>

\* all Mappers started: enter the while loop
EnterLoop ==
    /\ opc = "spawn"
    /\ started = Len(mapper_processes)
    /\ opc' = "alive"
    /\ scan' = 0
    /\ alive' = 0
    /\ UNCHANGED <<input_vars, log_vars, mappers, enq, item_queue, output,
                   mapper_processes, started, yielded, raised, taken>>

\* one m.is_alive() of sum(m.is_alive() for m in mapper_processes)
CheckAlive ==
    /\ opc = "alive"
    /\ scan < Len(mapper_processes)
    /\ scan' = scan + 1
    /\ alive' = alive + (IF IsAlive(mapper_processes[scan + 1]) THEN 1 ELSE 0)
    /\ UNCHANGED <<input_vars, log_vars, mappers, opc, enq, item_queue, output,
                   mapper_processes, started, yielded, raised, taken>>

\* mutant: `and` in place of `or` in the loop condition
AliveDecided_and ==
    /\ opc = "alive"
    /\ scan = Len(mapper_processes)
    /\ opc' = IF alive > 0 THEN "empty" ELSE "exhausted"
    /\ UNCHANGED <<input_vars, log_vars, mappers, enq, item_queue, output,
                   mapper_processes, started, scan, alive, yielded, raised, taken>>

\* sum(...) > 0 or ...: the left operand decides, or hands over to the right
AliveDecided ==
    /\ opc = "alive"
    /\ scan = Len(mapper_processes)
    /\ opc' = IF alive > 0 THEN "poll" ELSE "empty"
    /\ UNCHANGED <<input_vars, log_vars, mappers, enq, item_queue, output,
                   mapper_processes, started, scan, alive, yielded, raised, taken>>

\* mutant: the loop condition without `or not output.empty()`
CheckEmpty_skip ==
    /\ opc = "empty"
    /\ opc' = "exhausted"
    /\ UNCHANGED <<input_vars, log_vars, mappers, enq, item_queue, output,
                   mapper_processes, started, scan, alive, yielded, raised, taken>>

\* ... or not output.empty(): leave the loop when it is empty
CheckEmpty ==
    /\ opc = "empty"
    /\ opc' = IF output # <<>> THEN "poll" ELSE "exhausted"
    /\ UNCHANGED <<input_vars, log_vars, mappers, enq, item_queue, output,
                   mapper_processes, started, scan, alive, yielded, raised, taken>>

\* mutant: an error record is dropped and the loop goes on
TakeRecord_swallow ==
    /\ opc = "poll"
    /\ output # <<>>
    /\ output' = Tail(output)
    /\ taken' = Append(taken, Head(output))
    /\ opc' = IF Head(output)[1] = None THEN "yield" ELSE "alive"
    /\ scan' = 0
    /\ alive' = 0
    /\ UNCHANGED <<input_vars, log_vars, mappers, enq, item_queue,
                   mapper_processes, started, yielded, raised>>

\* mutant: an error record is noted and the loop goes on
TakeRecord_continue ==
    /\ opc = "poll"
    /\ output # <<>>
    /\ output' = Tail(output)
    /\ taken' = Append(taken, Head(output))
    /\ opc' = IF Head(output)[1] = None THEN "yield" ELSE "alive"
    /\ raised' = IF Head(output)[1] = None THEN raised ELSE Head(output)[1]
    /\ scan' = 0
    /\ alive' = 0
    /\ UNCHANGED <<input_vars, log_vars, mappers, enq, item_queue,
                   mapper_processes, started, yielded>>

\* mutant: the output queue hands out its newest record first
TakeRecord_lifo ==
    /\ opc = "poll"
    /\ output # <<>>
    /\ output' = SubSeq(output, 1, Len(output) - 1)
    /\ taken' = Append(taken, output[Len(output)])
    /\ IF output[Len(output)][1] = None
         THEN /\ opc' = "yield"
              /\ raised' = raised
         ELSE /\ opc' = "raised"
              /\ raised' = output[Len(output)][1]
    /\ UNCHANGED <<input_vars, log_vars, mappers, enq, item_queue,
                   mapper_processes, started, scan, alive, yielded>>

\* error, value = output.get(...); yield value / raise error
TakeRecord ==
    /\ opc = "poll"
    /\ output # <<>>
    /\ output' = Tail(output)
    /\ taken' = Append(taken, Head(output))
    /\ IF Head(output)[1] = None
         THEN /\ opc' = "yield"
              /\ raised' = raised
         ELSE /\ opc' = "raised"
              /\ raised' = Head(output)[1]
    /\ UNCHANGED <<input_vars, log_vars, mappers, enq, item_queue,
                   mapper_processes, started, scan, alive, yielded>>

\* mutant: output.get() without a timeout: it waits on the empty queue
PollTimeout_block ==
    /\ opc = "poll"
    /\ output = <<>>
    /\ UNCHANGED vars

\* output.get timed out: except Empty: continue
PollTimeout ==
    /\ opc = "poll"
    /\ output = <<>>
    /\ opc' = "alive"
    /\ scan' = 0
    /\ alive' = 0
    /\ UNCHANGED <<input_vars, log_vars, mappers, enq, item_queue, output,
                   mapper_processes, started, yielded, raised, taken>>

\* the caller receives the yielded value and asks for the next one
Resume ==
    /\ opc = "yield"
    /\ yielded' = Append(yielded, taken[Len(taken)][2])
    /\ opc' = "alive"
    /\ scan' = 0
    /\ alive' = 0
    /\ UNCHANGED <<input_vars, log_vars, mappers, enq, item_queue, output,
                   mapper_processes, started, raised, taken>>

Orchestrator ==
    \/ LoadItem
    \/ Prepare
    \/ StartMapper
    \/ EnterLoop
    \/ CheckAlive
    \/ AliveDecided
    \/ CheckEmpty
    \/ TakeRecord
    \/ PollTimeout
    \/ Resume

(* ------------------------------ Mapper.run ---------------------------- *)
\* logger.info("Starting up"): the module logger, written from the worker
MapperStart(w) ==
    /\ mapper_processes[w].pc = "start"
    /\ sink' = sink \cup {<<"mapper", "INFO", Msg("start", w, None, <<>>)>>}
    /\ mapper_processes' = [mapper_processes EXCEPT ![w].pc = "get"]
    /\ UNCHANGED <<input_vars, orch_vars, item_queue, output, logq, qlogger_started>>

\* mutant: the item is read but stays on the queue
MapperGet_peek(w) ==
    /\ mapper_processes[w].pc = "get"
    /\ item_queue # <<>>
    /\ item_queue' = item_queue
    /\ logq' = LogInfo(logq, Msg("processing", w, Head(item_queue), <<>>))
    /\ mapper_processes' = [mapper_processes EXCEPT
                              ![w].pc = "proc",
                              ![w].item = Head(item_queue),
                              ![w].count = 0]
    /\ UNCHANGED <<input_vars, orch_vars, output, qlogger_started, sink>>

\* mutant: the work queue hands out its newest item first
MapperGet_last(w) ==
    /\ mapper_processes[w].pc = "get"
    /\ item_queue # <<>>
    /\ item_queue' = SubSeq(item_queue, 1, Len(item_queue) - 1)
    /\ logq' = LogInfo(logq, Msg("processing", w, item_queue[Len(item_queue)], <<>>))
    /\ mapper_processes' = [mapper_processes EXCEPT
                              ![w].pc = "proc",
                              ![w].item = item_queue[Len(item_queue)],
                              ![w].count = 0]
    /\ UNCHANGED <<input_vars, orch_vars, output, qlogger_started, sink>>

\* item = self.item_queue.get(timeout=0.05), an item is there
MapperGet(w) ==
    /\ mapper_processes[w].pc = "get"
    /\ item_queue # <<>>
    /\ item_queue' = Tail(item_queue)
    /\ logq' = LogInfo(logq, Msg("processing", w, Head(item_queue), <<>>))
    /\ mapper_processes' = [mapper_processes EXCEPT
                              ![w].pc = "proc",
                              ![w].item = Head(item_queue),
                              ![w].count = 0]
    /\ UNCHANGED <<input_vars, orch_vars, output, qlogger_started, sink>>

\* mutant: the timeout is retried instead of ending the Mapper
MapperEmpty_retry(w) ==
    /\ mapper_processes[w].pc = "get"
    /\ item_queue = <<>>
    /\ UNCHANGED vars

\* mutant: Empty is caught by the inner handler and reported as a failure
MapperEmpty_err(w) ==
    /\ mapper_processes[w].pc = "get"
    /\ item_queue = <<>>
    /\ logq' = LogInfo(LogInfo(logq, Msg("nomore", w, None, <<>>)),
                       Msg("stats", w, None, mapper_processes[w].stats))
    /\ output' = Append(output, <<MaxItems + 1, NoValue>>)
    /\ mapper_processes' = [mapper_processes EXCEPT
                              ![w].pc = "drained",
                              ![w].sent = Append(mapper_processes[w].sent,
                                                 <<MaxItems + 1, NoValue>>)]
    /\ UNCHANGED <<input_vars, orch_vars, item_queue, qlogger_started, sink>>

\* mutant: the get gives up although an item may be on the queue
MapperEmpty_spurious(w) ==
    /\ mapper_processes[w].pc = "get"
    /\ logq' = LogInfo(LogInfo(logq, Msg("nomore", w, None, <<>>)),
                       Msg("stats", w, None, mapper_processes[w].stats))
    /\ mapper_processes' = [mapper_processes EXCEPT ![w].pc = "drained"]
    /\ UNCHANGED <<input_vars, orch_vars, item_queue, output, qlogger_started, sink>>

\* the get timed out on an empty queue: except Empty
MapperEmpty(w) ==
    /\ mapper_processes[w].pc = "get"
    /\ item_queue = <<>>
    /\ logq' = LogInfo(LogInfo(logq, Msg("nomore", w, None, <<>>)),
                       Msg("stats", w, None, mapper_processes[w].stats))
    /\ mapper_processes' = [mapper_processes EXCEPT ![w].pc = "drained"]
    /\ UNCHANGED <<input_vars, orch_vars, item_queue, output, qlogger_started, sink>>

\* process(item) yields its next value
MapperPut(w) ==
    LET m == mapper_processes[w]
        rec == <<None, Values(m.item)[m.count + 1]>>
    IN  /\ m.pc = "proc"
        /\ m.count < proc[m.item].n
        /\ output' = Append(output, rec)
        /\ mapper_processes' = [mapper_processes EXCEPT
                                  ![w].count = m.count + 1,
                                  ![w].sent = Append(m.sent, rec)]
        /\ UNCHANGED <<input_vars, orch_vars, log_vars, item_queue>>

\* process(item) is exhausted: self.stats.append(...)
MapperDone(w) ==
    LET m == mapper_processes[w]
    IN  /\ m.pc = "proc"
        /\ m.count = proc[m.item].n
        /\ ~proc[m.item].fails
        /\ mapper_processes' = [mapper_processes EXCEPT
                                  ![w].pc = "get",
                                  ![w].stats = Append(m.stats, <<m.item, m.count>>)]
        /\ UNCHANGED <<input_vars, orch_vars, log_vars, item_queue, output>>

\* mutant: no `return` after the error record: the Mapper goes on
MapperFail_continue(w) ==
    LET m == mapper_processes[w]
        rec == <<Error(m.item), NoValue>>
    IN  /\ m.pc = "proc"
        /\ m.count = proc[m.item].n
        /\ proc[m.item].fails
        /\ logq' = LogError(LogError(logq, Msg("error", w, m.item, <<>>)),
                            Msg("trace", w, m.item, <<>>))
        /\ output' = Append(output, rec)
        /\ mapper_processes' = [mapper_processes EXCEPT
                                  ![w].pc = "get",
                                  ![w].sent = Append(m.sent, rec)]
        /\ UNCHANGED <<input_vars, orch_vars, item_queue, qlogger_started, sink>>

\* mutant: the item that failed is put back on the work queue
MapperFail_requeue(w) ==
    LET m == mapper_processes[w]
        rec == <<Error(m.item), NoValue>>
    IN  /\ m.pc = "proc"
        /\ m.count = proc[m.item].n
        /\ proc[m.item].fails
        /\ logq' = LogError(LogError(logq, Msg("error", w, m.item, <<>>)),
                            Msg("trace", w, m.item, <<>>))
        /\ output' = Append(output, rec)
        /\ item_queue' = Append(item_queue, m.item)
        /\ mapper_processes' = [mapper_processes EXCEPT
                                  ![w].pc = "failed",
                                  ![w].sent = Append(m.sent, rec)]
        /\ UNCHANGED <<input_vars, orch_vars, qlogger_started, sink>>

\* mutant: the item that failed gets a stats entry too
MapperFail_stats(w) ==
    LET m == mapper_processes[w]
        rec == <<Error(m.item), NoValue>>
    IN  /\ m.pc = "proc"
        /\ m.count = proc[m.item].n
        /\ proc[m.item].fails
        /\ logq' = LogError(LogError(logq, Msg("error", w, m.item, <<>>)),
                            Msg("trace", w, m.item, <<>>))
        /\ output' = Append(output, rec)
        /\ mapper_processes' = [mapper_processes EXCEPT
                                  ![w].pc = "failed",
                                  ![w].stats = Append(m.stats, <<m.item, m.count>>),
                                  ![w].sent = Append(m.sent, rec)]
        /\ UNCHANGED <<input_vars, orch_vars, item_queue, qlogger_started, sink>>

\* mutant: the error record overtakes the records already on the queue
MapperFail_first(w) ==
    LET m == mapper_processes[w]
        rec == <<Error(m.item), NoValue>>
    IN  /\ m.pc = "proc"
        /\ m.count = proc[m.item].n
        /\ proc[m.item].fails
        /\ logq' = LogError(LogError(logq, Msg("error", w, m.item, <<>>)),
                            Msg("trace", w, m.item, <<>>))
        /\ output' = <<rec>> \o output
        /\ mapper_processes' = [mapper_processes EXCEPT
                                  ![w].pc = "failed",
                                  ![w].sent = Append(m.sent, rec)]
        /\ UNCHANGED <<input_vars, orch_vars, item_queue, qlogger_started, sink>>

\* process(item) raises: except Exception as e
MapperFail(w) ==
    LET m == mapper_processes[w]
        rec == <<Error(m.item), NoValue>>
    IN  /\ m.pc = "proc"
        /\ m.count = proc[m.item].n
        /\ proc[m.item].fails
        /\ logq' = LogError(LogError(logq, Msg("error", w, m.item, <<>>)),
                            Msg("trace", w, m.item, <<>>))
        /\ output' = Append(output, rec)
        /\ mapper_processes' = [mapper_processes EXCEPT
                                  ![w].pc = "failed",
                                  ![w].sent = Append(m.sent, rec)]
        /\ UNCHANGED <<input_vars, orch_vars, item_queue, qlogger_started, sink>>

\* mutant: the Mappers are halted once map has raised
Mapper_halted(w) ==
    /\ opc # "raised"
    /\ \/ MapperStart(w)
       \/ MapperGet(w)
       \/ MapperEmpty(w)
       \/ MapperPut(w)
       \/ MapperDone(w)
       \/ MapperFail(w)

Mapper(w) ==
    \/ MapperStart(w)
    \/ MapperGet(w)
    \/ MapperEmpty(w)
    \/ MapperPut(w)
    \/ MapperDone(w)
    \/ MapperFail(w)

(* ---------------------------- QueueLogger.run ------------------------- *)
\* level, message = self.queue.get(...); logger.log(level, message)
QueueLoggerLog ==
    /\ qlogger_started
    /\ logq # <<>>
    /\ logq' = Tail(logq)
    /\ sink' = sink \cup {<<"qlogger", Head(logq)[1], Head(logq)[2]>>}
    /\ UNCHANGED <<input_vars, orch_vars, item_queue, output, mapper_processes,
                   qlogger_started>>

\* except Empty: continue
QueueLoggerTimeout ==
    /\ qlogger_started
    /\ logq = <<>>
    /\ UNCHANGED vars

(* ------------------------------- Spec --------------------------------- *)
Next ==
    \/ Orchestrator
    \/ \E w \in Workers : Mapper(w)
    \/ QueueLoggerLog
    \/ QueueLoggerTimeout

Spec == Init /\ [][Next]_vars

\* processes and threads are scheduled by the operating system, and the
\* caller keeps iterating
FairSpec ==
    /\ Spec
    /\ WF_vars(Orchestrator)
    /\ \A w \in 1..(MaxItems + 1) : WF_vars(w \in Workers /\ Mapper(w))
    /\ WF_vars(QueueLoggerLog)

(* ------------------------- vocabulary of the claims ------------------- *)
Range(s) == {s[j] : j \in 1..Len(s)}
Occurrences(v, s) == Cardinality({j \in 1..Len(s) : s[j] = v})
Last(s) == s[Len(s)]
IsPrefix(s, t) == Len(s) <= Len(t) /\ \A j \in 1..Len(s) : s[j] = t[j]

\* every value process would yield on some item, failing or not
Emitted == UNION {Range(Values(i)) : i \in Items}
\* the values of the items on which process succeeds
SuccessfulValues == UNION {Range(Values(i)) : i \in {j \in Items : ~proc[j].fails}}

FailingItems == {i \in Items : proc[i].fails}
NeverFails == FailingItems = {}
OneFails == Cardinality(FailingItems) = 1
Silent == \A i \in Items : proc[i].n = 0 /\ ~proc[i].fails

IsErr(rec) == rec[1] # None
ErrCount(s) == Cardinality({j \in 1..Len(s) : IsErr(s[j])})
Terminated(m) == m.pc \in {"failed", "drained"}
\* the values of item i among those the caller received, in order
YieldedOf(i) == SelectSeq(yielded, LAMBDA v : v[1] = i)
\* Mapper w has claimed item i (it holds it, or has it in its stats)
Owns(w, i) ==
    \/ mapper_processes[w].item = i
    \/ \E j \in 1..Len(mapper_processes[w].stats) : mapper_processes[w].stats[j][1] = i
Clamp(x, lo, hi) == Max(lo, Min(x, hi))

(* -------------------------------- C1 ---------------------------------- *)
\* C1: with a non-empty item list and a process that never fails, when the
\* sequence of map is exhausted every value process yields on any item has
\* been yielded to the caller exactly once, and nothing else has.
C1_Completeness ==
    (opc = "exhausted" /\ nitems >= 1 /\ NeverFails) =>
        /\ \A v \in Emitted \cup Range(yielded) :
              Occurrences(v, yielded) = (IF v \in Emitted THEN 1 ELSE 0)
        /\ raised = None

\* two Mappers ran, and the caller got the second item's value before the first's
C1_Witness ==
    /\ opc = "exhausted" /\ nitems = 2 /\ NeverFails
    /\ Len(mapper_processes) = 2
    /\ Len(yielded) >= 3
    /\ yielded[1][1] = 2

(* -------------------------------- C2 ---------------------------------- *)
\* C2: the sequence of map is exhausted only in states where every Mapper
\* has terminated and the output queue is empty.
C2_ExhaustedOnlyWhenDone ==
    opc = "exhausted" =>
        /\ \A w \in Workers : Terminated(mapper_processes[w])
        /\ output = <<>>

\* exhausted after two Mappers delivered values through the queue
C2_Witness ==
    /\ opc = "exhausted"
    /\ Len(mapper_processes) = 2
    /\ \A w \in Workers : Len(mapper_processes[w].sent) >= 1

C4_PoolSizeStated ==
    [][(opc = "load" /\ opc' = "spawn" /\ nitems >= 1 /\ mappers >= 0) =>
          /\ mappers' = Clamp(mappers, 1, nitems)
          /\ Len(mapper_processes') = mappers']_vars

\* C4 amended: with at least one item the pool has clamp(requested, 1,
\* item_count) Mappers for every requested size >= 1, and clamp(cpu_count,
\* 1, item_count) Mappers when the requested size is 0; it never has more
\* Mappers than items, and every Mapper of the pool is started before the
\* loop is entered.
C4_PoolSize ==
    /\ [][(opc = "load" /\ opc' = "spawn" /\ nitems >= 1 /\ mappers >= 0) =>
            /\ mappers' = Clamp(IF mappers >= 1 THEN mappers ELSE CpuCount, 1, nitems)
            /\ Len(mapper_processes') = mappers'
            /\ mappers' <= nitems]_vars
    /\ [](opc \notin {"load", "spawn"} =>
            /\ started = mappers
            /\ Len(mapper_processes) = mappers
            /\ \A w \in Workers : mapper_processes[w].pc # "new")

\* more Mappers were requested than there are items, and the pool is sized
C4_Witness ==
    /\ opc = "load" /\ enq = nitems /\ nitems >= 1
    /\ mappers > nitems

(* -------------------------------- C5 ---------------------------------- *)
\* C5: when process yields nothing on every item, map ends with an empty
\* sequence: with no items no Mapper is created, the loop never polls and
\* nothing is raised; with items, under fair scheduling, the sequence is
\* eventually exhausted with nothing yielded and nothing raised.
C5_Termination ==
    /\ [](nitems = 0 =>
            /\ Len(mapper_processes) = 0 /\ started = 0
            /\ opc \in {"load", "spawn", "alive", "empty", "exhausted"}
            /\ yielded = <<>> /\ raised = None)
    /\ [](Silent => yielded = <<>> /\ raised = None)
    /\ (Silent ~> opc = "exhausted")

\* the sequence ended empty after a full pool drained the work queue
C5_Witness ==
    /\ Silent /\ nitems = MaxItems /\ opc = "exhausted"
    /\ Len(mapper_processes) = MaxItems
    /\ yielded = <<>>

C7_PerItemOrder ==
    /\ \A i \in Items : IsPrefix(YieldedOf(i), Values(i))
    /\ (opc = "exhausted" /\ nitems = 1 /\ NeverFails) => yielded = Values(1)

\* the caller got two values of one item with a value of another in between
C7_Witness ==
    /\ Len(yielded) >= 3
    /\ yielded[1][1] = yielded[3][1]
    /\ yielded[2][1] # yielded[1][1]

(* -------------------------------- C8 ---------------------------------- *)
\* C8: every item put on the work queue is in exactly one place: on the
\* queue once, or claimed by exactly one Mapper; an item not yet put is in
\* neither.
C8_ItemInOnePlace ==
    \A i \in Items :
        Occurrences(i, item_queue) + Cardinality({w \in Workers : Owns(w, i)})
            = (IF i <= enq THEN 1 ELSE 0)

\* two Mappers hold an item each
C8_Witness ==
    /\ Len(mapper_processes) = 2
    /\ mapper_processes[1].pc = "proc" /\ mapper_processes[2].pc = "proc"
    /\ mapper_processes[1].item # mapper_processes[2].item

(* -------------------------------- C9 ---------------------------------- *)
\* C9: a Mapper that has put its error record is terminated, and from then
\* on it claims no item and puts no record: nothing of it changes.
C9_FailedStops ==
    /\ [](\A w \in Workers :
            ErrCount(mapper_processes[w].sent) > 0 =>
                mapper_processes[w].pc = "failed")
    /\ [][\A w \in Workers :
            ErrCount(mapper_processes[w].sent) > 0 =>
                mapper_processes'[w] = mapper_processes[w]]_vars

\* a Mapper has failed while items are still on the work queue
C9_Witness ==
    \E w \in Workers :
        /\ mapper_processes[w].pc = "failed"
        /\ item_queue # <<>>

(* -------------------------------- C10 --------------------------------- *)
\* C10: a failed Mapper has put exactly one error record, and it is the
\* last record it put; a Mapper that ended on the empty queue has put none;
\* the error records ever put on the output queue are no more than the
\* Mappers.
C10_OneErrRecord ==
    /\ \A w \in Workers :
          LET m == mapper_processes[w]
          IN  /\ ErrCount(m.sent) <= 1
              /\ m.pc = "failed" <=> ErrCount(m.sent) = 1
              /\ ErrCount(m.sent) = 1 =>
                    Last(m.sent) = <<Error(m.item), NoValue>>
              /\ m.pc = "drained" => ErrCount(m.sent) = 0
    /\ ErrCount(taken \o output) <= Len(mapper_processes)

\* one Mapper failed after putting a value, the other ended on the empty queue
C10_Witness ==
    \E w, v \in Workers :
        /\ mapper_processes[w].pc = "failed"
        /\ Len(mapper_processes[w].sent) >= 2
        /\ mapper_processes[v].pc = "drained"
        /\ Len(mapper_processes[v].sent) >= 1

(* -------------------------------- C11 --------------------------------- *)
\* C11: a Mapper ends on the queue-empty path only in a step that finds the
\* work queue empty; when all Mappers have ended that way the queue is empty
\* and every item has been claimed; and as long as items are on the queue
\* and some Mapper has not failed, an item is eventually claimed, unless
\* every Mapper fails first.
C11_DrainedOnlyOnEmpty ==
    /\ [][\A w \in Workers :
            (mapper_processes[w].pc # "drained" /\ mapper_processes'[w].pc = "drained")
                => item_queue = <<>>]_vars
    /\ []((Workers # {} /\ \A w \in Workers : mapper_processes[w].pc = "drained") =>
            /\ item_queue = <<>>
            /\ \A i \in Items : \E w \in Workers : Owns(w, i))
    /\ \A k \in 1..(MaxItems + 1) :
          (/\ opc # "load" /\ Len(item_queue) = k
           /\ \E w \in Workers : mapper_processes[w].pc # "failed")
          ~> (\/ Len(item_queue) < k
              \/ \A w \in Workers : mapper_processes[w].pc = "failed")

\* both Mappers ended on the empty queue, one of them without ever getting an item
C11_Witness ==
    /\ Len(mapper_processes) = 2 /\ nitems = 2
    /\ \A w \in Workers : mapper_processes[w].pc = "drained"
    /\ \E w \in Workers : mapper_processes[w].item = None
    /\ \E w \in Workers : Len(mapper_processes[w].stats) = 2

(* -------------------------------- C12 --------------------------------- *)
\* C12: once a Mapper has been started every item has been put on the work
\* queue, no Mapper holds an item before that, and from then on the work
\* queue never grows.
C12_LoadBeforeStart ==
    /\ []((started > 0 \/ \E w \in Workers : mapper_processes[w].pc # "new") =>
            enq = nitems)
    /\ [](enq < nitems => \A w \in Workers : mapper_processes[w].item = None)
    /\ [][started > 0 => Len(item_queue') <= Len(item_queue)]_vars

\* the first Mapper holds an item while the second has not been started yet
C12_Witness ==
    /\ Len(mapper_processes) = 2 /\ started = 1
    /\ mapper_processes[1].pc = "proc"
    /\ mapper_processes[2].pc = "new"
    /\ item_queue # <<>>

(* -------------------------------- C13 --------------------------------- *)
\* C13: the item a Mapper failed on is not on the work queue and no other
\* Mapper has claimed it; and once every Mapper has terminated the work
\* queue never changes again, so what is left on it stays unclaimed.
C13_NoRedelivery ==
    /\ [](\A w \in Workers :
            mapper_processes[w].pc = "failed" =>
                /\ Occurrences(mapper_processes[w].item, item_queue) = 0
                /\ \A v \in Workers \ {w} : ~Owns(v, mapper_processes[w].item))
    /\ [][(Workers # {} /\ \A w \in Workers : Terminated(mapper_processes[w])) =>
            /\ item_queue' = item_queue
            /\ \A w \in Workers : mapper_processes'[w].item = mapper_processes[w].item]_vars

\* the last live Mapper failed and left an item on the work queue
C13_Witness ==
    /\ Workers # {}
    /\ \A w \in Workers : Terminated(mapper_processes[w])
    /\ \E w \in Workers : mapper_processes[w].pc = "failed"
    /\ item_queue # <<>>

(* -------------------------------- C14 --------------------------------- *)
\* C14: after map has raised, a live Mapper can always take its next step;
\* under fair scheduling every Mapper ends, on the empty queue or on its
\* own failure; and the records on the output queue are never taken: the
\* queue only grows, and the caller receives nothing more.
C14_WorkersRunOn ==
    /\ [](opc = "raised" =>
            \A w \in Workers : IsAlive(mapper_processes[w]) => ENABLED Mapper(w))
    /\ [][opc = "raised" =>
            /\ IsPrefix(output, output')
            /\ yielded' = yielded /\ taken' = taken]_vars
    /\ (opc = "raised" ~>
            /\ \A w \in Workers : Terminated(mapper_processes[w])
            /\ (\E w \in Workers : mapper_processes[w].pc = "drained") => item_queue = <<>>)

\* after the raise another Mapper finished the queue; its value was never read
C14_Witness ==
    /\ opc = "raised"
    /\ \A w \in Workers : Terminated(mapper_processes[w])
    /\ \E w \in Workers : mapper_processes[w].pc = "drained" /\ Len(mapper_processes[w].sent) >= 1
    /\ \E j \in 1..Len(output) : ~IsErr(output[j])

(* -------------------------------- C15 --------------------------------- *)
\* C15: every write to the process-wide log sink is made by the
\* QueueLogger: no Mapper writes to it directly.
C15_OnlyThroughLogChannel ==
    \A rec \in sink : rec[1] = "qlogger"

(* -------------------------------- C16 --------------------------------- *)
\* log records that have been put on the log queue so far
LogRecords == Range(logq) \cup {<<rec[2], rec[3]>> : rec \in {x \in sink : x[1] = "qlogger"}}
\* the items Mapper w has logged as claimed
Claimed(w) == {r[2].item : r \in {x \in LogRecords : x[2].kind = "processing" /\ x[2].name = w}}
\* the stats Mapper w has flushed to the log queue
Flushed(w) == {r[2].stats : r \in {x \in LogRecords : x[2].kind = "stats" /\ x[2].name = w}}
\* the value records Mapper w has put for item i
OkCount(w, i) ==
    Cardinality({j \in 1..Len(mapper_processes[w].sent) :
                    /\ ~IsErr(mapper_processes[w].sent[j])
                    /\ mapper_processes[w].sent[j][2][1] = i})

\* C16: the stats of a Mapper have one entry for every item it claimed and
\* processed to exhaustion, in the order it claimed them (the order of the
\* queue); the count of an entry is the number of value records the Mapper
\* put for the item; the item it holds (in progress or failed on) has no
\* entry; the stats are on the log queue exactly when the Mapper has ended
\* on the empty queue, so a failed Mapper never flushed them.
C16_Stats ==
    \A w \in Workers :
        LET m == mapper_processes[w]
            held == IF m.pc \in {"proc", "failed"} THEN {m.item} ELSE {}
        IN  /\ {m.stats[j][1] : j \in 1..Len(m.stats)} = Claimed(w) \ held
            /\ \A j, k \in 1..Len(m.stats) : j < k => m.stats[j][1] < m.stats[k][1]
            /\ \A j \in 1..Len(m.stats) :
                  /\ m.stats[j][2] = OkCount(w, m.stats[j][1])
                  /\ m.stats[j][2] = proc[m.stats[j][1]].n
                  /\ ~proc[m.stats[j][1]].fails
            /\ m.pc = "failed" => \A j \in 1..Len(m.stats) : m.stats[j][1] # m.item
            /\ Flushed(w) = (IF m.pc = "drained" THEN {m.stats} ELSE {})

\* a Mapper failed on its second item, with the first one in its stats
C16_Witness ==
    \E w \in Workers :
        /\ mapper_processes[w].pc = "failed"
        /\ Len(mapper_processes[w].stats) = 1
        /\ mapper_processes[w].stats[1][2] >= 1
        /\ \E v \in Workers : mapper_processes[v].pc = "drained"

(* -------------------------------- C17 --------------------------------- *)
\* every record put on the output queue so far, in queue order
Channel == taken \o output
Pos(rec, q) == CHOOSE j \in 1..Len(q) : q[j] = rec

\* C17: when a Mapper has failed on an item, every value process yielded on
\* that item is on the output queue (or already taken from it) ahead of the
\* Mapper's error record, and these records are the last the Mapper put;
\* with a pool of one Mapper the caller has received all these values when
\* the failure is raised.
C17_PartialOutputFirst ==
    /\ \A w \in Workers :
          LET m == mapper_processes[w]
              n == proc[m.item].n
              err == <<Error(m.item), NoValue>>
          IN  m.pc = "failed" =>
                /\ Len(m.sent) >= n + 1
                /\ \A k \in 1..n :
                      /\ m.sent[Len(m.sent) - n - 1 + k] = <<None, Values(m.item)[k]>>
                      /\ Occurrences(<<None, Values(m.item)[k]>>, Channel) = 1
                      /\ Occurrences(err, Channel) = 1
                      /\ Pos(<<None, Values(m.item)[k]>>, Channel) < Pos(err, Channel)
    /\ (opc = "raised" /\ Len(mapper_processes) = 1) =>
          YieldedOf(raised) = Values(raised)

\* one Mapper: the caller got a value of the item before its failure was raised
C17_Witness ==
    /\ opc = "raised" /\ Len(mapper_processes) = 1
    /\ proc[raised].n >= 1
    /\ Last(yielded)[1] = raised

(* -------------------------------- C18 --------------------------------- *)
RECURSIVE ValuesUpTo(_)
\* the values process yields on items 1..k, item after item
ValuesUpTo(k) == IF k = 0 THEN <<>> ELSE ValuesUpTo(k - 1) \o Values(k)
\* the first item of the input on which process raises
FirstFailing == CHOOSE i \in FailingItems : \A j \in FailingItems : i <= j
\* the values among the records q, in order
ValuesIn(q) == [j \in 1..Len(SelectSeq(q, LAMBDA r : ~IsErr(r))) |->
                    SelectSeq(q, LAMBDA r : ~IsErr(r))[j][2]]

C19_EventualOutcome ==
    /\ <>[](opc \in {"exhausted", "raised"})
    /\ <>[](/\ opc \notin {"load", "spawn"}
            /\ \A w \in Workers : Terminated(mapper_processes[w]))
    /\ [](qlogger_started => ENABLED (QueueLoggerLog \/ QueueLoggerTimeout))

\* map is exhausted and the Mappers have ended while the QueueLogger still
\* has records to write
C19_Witness ==
    /\ opc = "exhausted"
    /\ Len(mapper_processes) = 2
    /\ \A w \in Workers : Terminated(mapper_processes[w])
    /\ logq # <<>>

====
